---- MODULE Spec2Model ----
(***************************************************************************)
(* opensheet (src/index.js): an express server that proxies a Google       *)
(* spreadsheet as JSON and keeps each answer in a process-wide Map for a   *)
(* fixed time.  The model covers the read route GET /:id/:sheet, the       *)
(* manual eviction route DELETE /cache/:id, the expiration timers armed    *)
(* by setTimeout, and the event loop that interleaves them.  index.js      *)
(* holds the server twice: the second copy (lines 130-224) has the same    *)
(* read route with a delay of 30000 and no eviction route; the model       *)
(* follows the first copy.                                                 *)
(*                                                                         *)
(* Every handler runs to its next await, callback registration or return   *)
(* as one step: the event loop runs one callback at a time.  A timer runs  *)
(* no earlier than its due time, and the event loop may run other          *)
(* callbacks that are ready before it.                                     *)
(*                                                                         *)
(* Strings that the code inspects character by character (route            *)
(* parameters, sheet titles, cache keys) are sequences of one-character    *)
(* strings.  Header names and cell values are only copied and compared,    *)
(* so they are atoms.                                                      *)
(***************************************************************************)
EXTENDS Integers, Sequences, FiniteSets, TLC

(***************************************************************************)
(* Bounds of the model.                                                    *)
(***************************************************************************)
\* requests (reads and appends) that may be suspended on an upstream call at once
MaxInFlight == 2
\* read requests accepted in one behaviour
MaxReads == 2
\* append requests accepted in one behaviour
MaxWrites == 1
\* the clock advances in steps of TimeStep milliseconds until it reaches MaxTime
TimeStep == 200000
MaxTime == 400000
\* the raw matrices given to the row transform alone: names in the header
\* row, rows after it, cells in such a row
MaxHeaders == 2
MaxRows == 2
MaxRowLen == 3

(***************************************************************************)
(* Program constants.                                                      *)
(***************************************************************************)
\* setTimeout(..., 300000)
TTL == 300000

(***************************************************************************)
(* Inputs.                                                                 *)
(***************************************************************************)
\* req.params.sheet of the read route, after URL decoding
SheetParams ==
  { <<"S", "+", "1">>, <<"S", " ", "1">>, <<"0">>, <<"2">> }

\* the requests of the read route, <<req.params.id, req.params.sheet>>: every
\* identifier for one resource, and a second resource
ReadInputs ==
  {<< <<"a">>, p >> : p \in SheetParams} \cup { << <<"b">>, <<"S", " ", "1">> >> }

\* the requests of the append route
AppendInputs == { << <<"a">>, <<"S", "+", "1">> >> }

\* answers of spreadsheets.get: response.data.sheets[i].properties.title
SheetLists == { << <<"S", " ", "1">> >>, << <<"S", " ", "1">>, <<"T", "+">> >> }

\* error.response.data.error.message of a failed upstream call
Messages == { "denied" }

\* result.data of spreadsheets.values.get: values may be missing
RawResults ==
  { [has |-> FALSE, values |-> <<>>],
    [has |-> TRUE, values |-> <<>>],
    [has |-> TRUE, values |-> << <<"a", "b">>, <<"1", "2">>, <<"3">> >>] }

(***************************************************************************)
(* JavaScript string functions used by the read route.                     *)
(***************************************************************************)
\* the identifier used as it came
KeepPlus(s) == s

RECURSIVE ReplacePlus(_)
\* sheet.replace(/\+/g, " ")
ReplacePlus(s) ==
  IF s = <<>> THEN <<>>
  ELSE <<(IF Head(s) = "+" THEN " " ELSE Head(s))>> \o ReplacePlus(Tail(s))

\* `${id}--${sheet}`
CacheKeyOf(id, sheet) == id \o <<"-", "-">> \o sheet

Digits == <<"0", "1", "2", "3", "4", "5", "6", "7", "8", "9">>

IsDigit(c) == \E i \in 1..10 : Digits[i] = c

DigitVal(c) == (CHOOSE i \in 1..10 : Digits[i] = c) - 1

RECURSIVE TrimLeft(_)
TrimLeft(s) == IF s # <<>> /\ Head(s) = " " THEN TrimLeft(Tail(s)) ELSE s

RECURSIVE TrimRight(_)
TrimRight(s) ==
  IF s # <<>> /\ s[Len(s)] = " " THEN TrimRight(SubSeq(s, 1, Len(s) - 1)) ELSE s

\* isNaN(sheet): ToNumber of a string.  White space is trimmed, the empty
\* string is 0, and a decimal literal is an optional sign and digits.  The
\* other numeric literals (".", exponents, 0x, Infinity) need characters
\* that no input of the model has.
IsNaNString(s) ==
  LET t == TrimRight(TrimLeft(s))
      u == IF t # <<>> /\ Head(t) \in {"+", "-"} THEN Tail(t) ELSE t
  IN  IF t = <<>> THEN FALSE
      ELSE ~(u # <<>> /\ \A i \in 1..Len(u) : IsDigit(u[i]))

RECURSIVE DigitPrefix(_)
DigitPrefix(s) ==
  IF s # <<>> /\ IsDigit(Head(s)) THEN <<Head(s)>> \o DigitPrefix(Tail(s)) ELSE <<>>

RECURSIVE DecimalValue(_)
DecimalValue(ds) ==
  IF ds = <<>> THEN 0
  ELSE 10 * DecimalValue(SubSeq(ds, 1, Len(ds) - 1)) + DigitVal(ds[Len(ds)])

\* parseInt(sheet): leading white space skipped, an optional sign, then the
\* longest prefix of digits; without a digit the result is NaN.
ParseInt(s) ==
  LET t == TrimLeft(s)
      neg == t # <<>> /\ Head(t) = "-"
      u == IF t # <<>> /\ Head(t) \in {"+", "-"} THEN Tail(t) ELSE t
      ds == DigitPrefix(u)
  IN  IF ds = <<>> THEN [nan |-> TRUE, val |-> 0]
      ELSE [nan |-> FALSE, val |-> IF neg THEN 0 - DecimalValue(ds) ELSE DecimalValue(ds)]

(***************************************************************************)
(* Row objects and their serialized form.  A JavaScript object is the      *)
(* sequence of its own properties <<key, value>> in property order: keys   *)
(* that are array indices first, in ascending numeric order, then the      *)
(* other keys in order of creation.  Assigning to an existing key keeps    *)
(* its position.                                                           *)
(***************************************************************************)
\* the numeric value of a key that is an array index, -1 for any other key
IndexKeyVal(k) ==
  CASE k = "0" -> 0 [] k = "1" -> 1 [] k = "2" -> 2 [] k = "3" -> 3 [] OTHER -> -1

ObjHas(o, k) == \E i \in 1..Len(o) : o[i][1] = k

\* a property defined on the object itself: a new key takes its place in
\* property order, an existing key keeps its position
ObjDefine(o, k, v) ==
  IF ObjHas(o, k)
  THEN [i \in 1..Len(o) |-> IF o[i][1] = k THEN <<k, v>> ELSE o[i]]
  ELSE IF IndexKeyVal(k) >= 0
       THEN LET before == Cardinality({i \in 1..Len(o) :
                             IndexKeyVal(o[i][1]) >= 0 /\ IndexKeyVal(o[i][1]) < IndexKeyVal(k)})
            IN  SubSeq(o, 1, before) \o << <<k, v>> >> \o SubSeq(o, before + 1, Len(o))
       ELSE Append(o, <<k, v>>)

\* rowData[key] = item: an assignment to "__proto__" reaches the setter of
\* Object.prototype, which ignores a string and creates no property
ObjSet(o, k, v) == IF k = "__proto__" THEN o ELSE ObjDefine(o, k, v)

\* headers[index]: a position past the end of the header row reads as
\* undefined, and the property key is then the string "undefined"
HeaderAt(headers, i) == IF i <= Len(headers) THEN headers[i] ELSE "undefined"

RECURSIVE RowData(_, _, _)
\* row.forEach((item, index) => { rowData[headers[index]] = item; })
RowData(headers, row, n) ==
  IF n = 0 THEN <<>>
  ELSE ObjSet(RowData(headers, row, n - 1), HeaderAt(headers, n), row[n])

\* the header row read but not removed: rawRows[0] in place of rawRows.shift()
TransformKeepsHeaderRow(raw) ==
  LET rawRows == IF raw.has THEN raw.values ELSE <<>>
  IN  [i \in 1..Len(rawRows) |-> RowData(rawRows[1], rawRows[i], Len(rawRows[i]))]

\* result.data.values || [], headers = rawRows.shift(), rawRows.forEach(...)
Transform(raw) ==
  LET rawRows == IF raw.has THEN raw.values ELSE <<>>
  IN  IF rawRows = <<>> THEN <<>>
      ELSE [i \in 1..(Len(rawRows) - 1) |->
              RowData(rawRows[1], rawRows[i + 1], Len(rawRows[i + 1]))]

\* A serialized value is a sequence of tokens: punctuation and quoted strings.
Punct(c) == [t |-> "punct", v |-> c]
Quoted(x) == [t |-> "string", v |-> x]

RECURSIVE StringifyMembers(_, _)
StringifyMembers(o, i) ==
  IF i > Len(o) THEN <<>>
  ELSE (IF i > 1 THEN <<Punct(",")>> ELSE <<>>)
       \o <<Quoted(o[i][1]), Punct(":"), Quoted(o[i][2])>>
       \o StringifyMembers(o, i + 1)

RECURSIVE StringifyElements(_, _)
StringifyElements(rows, i) ==
  IF i > Len(rows) THEN <<>>
  ELSE (IF i > 1 THEN <<Punct(",")>> ELSE <<>>)
       \o <<Punct("{")>> \o StringifyMembers(rows[i], 1) \o <<Punct("}")>>
       \o StringifyElements(rows, i + 1)

\* JSON.stringify(rows)
Stringify(rows) == <<Punct("[")>> \o StringifyElements(rows, 1) \o <<Punct("]")>>

RECURSIVE ParseMembers(_, _, _)
\* reads the members of one object from position i; the result is the
\* object and the position after its closing brace
ParseMembers(toks, i, acc) ==
  IF toks[i] = Punct("}") THEN [obj |-> acc, next |-> i + 1]
  ELSE IF toks[i] = Punct(",") THEN ParseMembers(toks, i + 1, acc)
  ELSE ParseMembers(toks, i + 3, ObjDefine(acc, toks[i].v, toks[i + 2].v))

RECURSIVE ParseElements(_, _, _)
ParseElements(toks, i, acc) ==
  IF toks[i] = Punct("]") THEN acc
  ELSE IF toks[i] = Punct(",") THEN ParseElements(toks, i + 1, acc)
  ELSE LET m == ParseMembers(toks, i + 1, <<>>)
       IN  ParseElements(toks, m.next, Append(acc, m.obj))

\* JSON.parse(result)
Parse(toks) == ParseElements(toks, 2, <<>>)

\* res.json(body): express serializes the body with JSON.stringify
ResJson(rows) == Stringify(rows)

(***************************************************************************)
(* State.                                                                  *)
(***************************************************************************)
VARIABLES
  Cache,     \* the Map: a function from the keys present to serialized values
  timers,    \* the pending setTimeout callbacks: records [key, due]
  now,       \* the wall clock, in milliseconds
  inflight,  \* the requests suspended on an upstream call, in order of arrival
  nreads,    \* the number of read requests accepted so far
  nwrites,   \* the number of append requests accepted so far
  storedAt,  \* for each key present, the time of the Cache.set that stored it
             \* and the request that made it
  last,      \* the handler run or callback that made the last step, and its output
  tf         \* a raw result and the row table made of it, for the transform alone

vars == <<Cache, timers, now, inflight, nreads, nwrites, storedAt, last, tf>>

\* Cache.has(key)
CacheHas(key) == key \in DOMAIN Cache

\* a get that runs after the timer callbacks that are due, as it would if
\* the handler yielded to the event loop between has and get
CacheGetAfterTimers(key) ==
  IF key \in DOMAIN Cache /\ ~(\E t \in timers : t.key = key /\ t.due <= now)
  THEN [undef |-> FALSE, val |-> Cache[key]]
  ELSE [undef |-> TRUE, val |-> <<>>]

\* Cache.get(key): undefined for a key that is absent
CacheGet(key) ==
  IF key \in DOMAIN Cache THEN [undef |-> FALSE, val |-> Cache[key]]
  ELSE [undef |-> TRUE, val |-> <<>>]

\* Cache.set(key, value)
CacheSet(key, value) ==
  [k \in DOMAIN Cache \cup {key} |-> IF k = key THEN value ELSE Cache[k]]

\* a delete that removes nothing
CacheDeleteNothing(key) == Cache

\* Cache.delete(key)
CacheDelete(key) == [k \in DOMAIN Cache \ {key} |-> Cache[k]]

\* the record of the stores follows the Map: set by Cache.set, dropped by
\* Cache.delete
StoredAtSet(key, id, param) ==
  [k \in DOMAIN storedAt \cup {key} |->
     IF k = key THEN [at |-> now, id |-> id, param |-> param] ELSE storedAt[k]]

StoredAtDelete(key) == [k \in DOMAIN storedAt \ {key} |-> storedAt[k]]

\* a timer armed only when the key has none pending
ArmTimerOnce(key) ==
  IF \E t \in timers : t.key = key THEN timers
  ELSE timers \cup {[key |-> key, due |-> now + TTL]}

\* setTimeout(() => { Cache.delete(cacheKey); }, 300000): nothing cancels a
\* timer.  Two timers of one key with one due time act as one.
ArmTimer(key) == timers \cup {[key |-> key, due |-> now + TTL]}

\* an entry holding the empty row sequence taken for a missing one
FalsyOrEmptyRows(got) == got.undef \/ got.val = <<>> \/ Len(got.val) = 2

\* !exist: undefined and the empty string are falsy
Falsy(got) == got.undef \/ got.val = <<>>

(***************************************************************************)
(* Responses and upstream calls.                                           *)
(***************************************************************************)
NoResponse == [kind |-> "none", body |-> <<>>, msg |-> "", arg |-> <<>>]

\* res.json(rows)
RowsResponse(body) == [kind |-> "rows", body |-> body, msg |-> "", arg |-> <<>>]

\* res.json({ error: error.response.data.error.message })
UpstreamError(msg) == [kind |-> "upstream", body |-> <<>>, msg |-> msg, arg |-> <<>>]

\* res.json({ error: "For this API, sheet numbers start at 1" })
StartAtOneError == [kind |-> "zero", body |-> <<>>, msg |-> "", arg |-> <<>>]

\* res.json({ error: `There is no sheet number ${sheet}` })
NoSheetError(sheet) == [kind |-> "nosheet", body |-> <<>>, msg |-> "", arg |-> sheet]

\* res.json({status: 'skipped'}), res.json({status: 'ok'})
StatusResponse(status) == [kind |-> "status", body |-> <<>>, msg |-> status, arg |-> <<>>]

\* sheets.spreadsheets.get({ spreadsheetId: id })
DescribeCall(id) == [op |-> "describe", id |-> id, range |-> <<>>]

\* sheets.spreadsheets.values.get({ spreadsheetId: id, range: sheet }, callback)
FetchCall(id, range) == [op |-> "fetch", id |-> id, range |-> range]

\* what an upstream call may answer: a failure with a message, a failure
\* without a response (error.response is undefined), or data
DescribeOutcomes ==
  {[kind |-> "error", msg |-> m, sheets |-> <<>>] : m \in Messages}
  \cup {[kind |-> "noresponse", msg |-> "", sheets |-> <<>>]}
  \cup {[kind |-> "ok", msg |-> "", sheets |-> l] : l \in SheetLists}

FetchOutcomes ==
  {[kind |-> "error", msg |-> m, data |-> [has |-> FALSE, values |-> <<>>]] : m \in Messages}
  \cup {[kind |-> "noresponse", msg |-> "", data |-> [has |-> FALSE, values |-> <<>>]]}
  \cup {[kind |-> "ok", msg |-> "", data |-> d] : d \in RawResults}

\* a request suspended at an await or waiting for its callback
Suspended(kind, pc, id, param, sheet, key, calls) ==
  [kind |-> kind, pc |-> pc, id |-> id, param |-> param, sheet |-> sheet,
   cacheKey |-> key, calls |-> calls]

\* the record of a step that ended a request: ended is "responded", or "threw"
\* when an exception left the handler and no response is sent
Step(op, ended, id, param, key, calls, res) ==
  [op |-> op, ended |-> ended, id |-> id, param |-> param, key |-> key,
   calls |-> calls, res |-> res]

\* a step that ended no request: a suspension, a timer callback, a clock tick
Quiet == Step("", "", <<>>, <<>>, <<>>, <<>>, NoResponse)

RemoveAt(q, i) == SubSeq(q, 1, i - 1) \o SubSeq(q, i + 1, Len(q))

Init ==
  /\ Cache = <<>>
  /\ timers = {}
  /\ now = 0
  /\ inflight = <<>>
  /\ nreads = 0
  /\ nwrites = 0
  /\ storedAt = <<>>
  /\ last = Quiet
  /\ tf = [raw |-> [has |-> FALSE, values |-> <<>>], done |-> FALSE, rows |-> <<>>]

(***************************************************************************)
(* GET /:id/:sheet                                                         *)
(***************************************************************************)
\* the stored string sent as it is, without JSON.parse: express serializes
\* it again, as one JSON string
HitResponseUnparsed(key) == RowsResponse(<<Quoted("serialized rows")>>)

\* the cache-hit branch: res.json(JSON.parse(Cache.get(cacheKey)))
HitResponse(key) == RowsResponse(ResJson(Parse(CacheGet(key).val)))

\* the handler from its start to its first return or suspension.  In the
\* hit branch JSON.parse of an undefined value throws and nothing is sent.
ReadStart(id, param) ==
  LET sheet == ReplacePlus(param)
      cacheKey == CacheKeyOf(id, sheet)
  IN  /\ nreads < MaxReads
      /\ nreads' = nreads + 1
      /\ UNCHANGED <<Cache, timers, now, storedAt, nwrites>>
      /\ IF CacheHas(cacheKey)
         THEN /\ inflight' = inflight
              /\ last' = IF CacheGet(cacheKey).undef
                         THEN Step("read", "threw", id, param, cacheKey, <<>>, NoResponse)
                         ELSE Step("read", "responded", id, param, cacheKey, <<>>,
                                   HitResponse(cacheKey))
         ELSE /\ Len(inflight) < MaxInFlight
              /\ IF ~IsNaNString(sheet)
                 THEN /\ inflight' = Append(inflight,
                           Suspended("read", "describe", id, param, sheet, cacheKey,
                                     <<DescribeCall(id)>>))
                      /\ last' = Quiet
                 ELSE /\ inflight' = Append(inflight,
                           Suspended("read", "fetch", id, param, sheet, cacheKey,
                                     <<FetchCall(id, sheet)>>))
                      /\ last' = Quiet

\* the ordinal used as a 0-based index: sheetIndex = parseInt(sheet)
SheetAtZeroBased(sheets, sheet) ==
  LET n == ParseInt(sheet)
  IN  IF ~n.nan /\ n.val >= 0 /\ n.val < Len(sheets)
      THEN [undef |-> FALSE, title |-> sheets[n.val + 1]]
      ELSE [undef |-> TRUE, title |-> <<>>]

\* data.sheets[sheetIndex] with sheetIndex = parseInt(sheet) - 1: undefined
\* for NaN and for an index outside the array
SheetAt(sheets, sheet) ==
  LET n == ParseInt(sheet)
  IN  IF ~n.nan /\ n.val - 1 >= 0 /\ n.val - 1 < Len(sheets)
      THEN [undef |-> FALSE, title |-> sheets[n.val]]
      ELSE [undef |-> TRUE, title |-> <<>>]

\* the resolution not awaited: whatever the answer, the handler goes on to
\* values.get with the identifier it has
ResolveNotAwaited(rq, out) ==
  IF out.kind = "ok" /\ ~SheetAt(out.sheets, rq.sheet).undef
  THEN [next |-> "fetch", res |-> NoResponse, sheet |-> SheetAt(out.sheets, rq.sheet).title]
  ELSE [next |-> "fetch", res |-> NoResponse, sheet |-> rq.sheet]

\* the handler resumed after await sheets.spreadsheets.get(...): what it
\* does with the answer.  next is "fetch" when it goes on to values.get.
Resolve(rq, out) ==
  IF out.kind = "error"
  THEN [next |-> "responded", res |-> UpstreamError(out.msg), sheet |-> rq.sheet]
  ELSE IF out.kind = "noresponse"
  THEN [next |-> "threw", res |-> NoResponse, sheet |-> rq.sheet]
  ELSE IF ~ParseInt(rq.sheet).nan /\ ParseInt(rq.sheet).val = 0
  THEN [next |-> "responded", res |-> StartAtOneError, sheet |-> rq.sheet]
  ELSE IF SheetAt(out.sheets, rq.sheet).undef
  THEN [next |-> "responded", res |-> NoSheetError(rq.sheet), sheet |-> rq.sheet]
  ELSE [next |-> "fetch", res |-> NoResponse, sheet |-> SheetAt(out.sheets, rq.sheet).title]

DescribeReturn(i, out) ==
  LET rq == inflight[i]
      r == Resolve(rq, out)
  IN  /\ rq.kind = "read" /\ rq.pc = "describe"
      /\ UNCHANGED <<Cache, timers, now, storedAt, nreads, nwrites>>
      /\ IF r.next = "fetch"
         THEN LET calls == Append(rq.calls, FetchCall(rq.id, r.sheet))
              IN  /\ inflight' = [inflight EXCEPT ![i] =
                        Suspended("read", "fetch", rq.id, rq.param, r.sheet, rq.cacheKey, calls)]
                  /\ last' = Quiet
         ELSE /\ inflight' = RemoveAt(inflight, i)
              /\ last' = Step("describe", r.next, rq.id, rq.param, rq.cacheKey,
                              rq.calls, r.res)

\* the store made before the error check: a failed fetch caches no rows
FetchFailedButStored(rq, out) ==
  /\ Cache' = CacheSet(rq.cacheKey, Stringify(<<>>))
  /\ storedAt' = StoredAtSet(rq.cacheKey, rq.id, rq.param)
  /\ timers' = ArmTimer(rq.cacheKey)
  /\ last' = Step("fetch", IF out.kind = "error" THEN "responded" ELSE "threw",
                  rq.id, rq.param, rq.cacheKey, rq.calls,
                  IF out.kind = "error" THEN UpstreamError(out.msg) ELSE NoResponse)

\* the callback of values.get on a failure
FetchFailed(rq, out) ==
  /\ UNCHANGED <<Cache, timers, storedAt>>
  /\ last' = Step("fetch", IF out.kind = "error" THEN "responded" ELSE "threw",
                  rq.id, rq.param, rq.cacheKey, rq.calls,
                  IF out.kind = "error" THEN UpstreamError(out.msg) ELSE NoResponse)

\* the callback without the default for missing values: rawRows.shift() on
\* undefined throws before anything is stored or sent
FetchSucceededNoDefault(rq, out) ==
  IF ~out.data.has
  THEN /\ UNCHANGED <<Cache, timers, storedAt>>
       /\ last' = Step("fetch", "threw", rq.id, rq.param, rq.cacheKey, rq.calls, NoResponse)
  ELSE LET rows == Transform(out.data)
       IN  /\ Cache' = CacheSet(rq.cacheKey, Stringify(rows))
           /\ storedAt' = StoredAtSet(rq.cacheKey, rq.id, rq.param)
           /\ timers' = ArmTimer(rq.cacheKey)
           /\ last' = Step("fetch", "responded", rq.id, rq.param, rq.cacheKey, rq.calls,
                           RowsResponse(ResJson(rows)))

\* the callback of values.get on success: transform, store, arm, respond
FetchSucceeded(rq, out) ==
  LET rows == Transform(out.data)
  IN  /\ Cache' = CacheSet(rq.cacheKey, Stringify(rows))
      /\ storedAt' = StoredAtSet(rq.cacheKey, rq.id, rq.param)
      /\ timers' = ArmTimer(rq.cacheKey)
      /\ last' = Step("fetch", "responded", rq.id, rq.param, rq.cacheKey, rq.calls,
                      RowsResponse(ResJson(rows)))

FetchReturn(i, out) ==
  LET rq == inflight[i]
  IN  /\ rq.kind = "read" /\ rq.pc = "fetch"
      /\ UNCHANGED <<now, nreads, nwrites>>
      /\ inflight' = RemoveAt(inflight, i)
      /\ IF out.kind = "ok" THEN FetchSucceeded(rq, out) ELSE FetchFailed(rq, out)

(***************************************************************************)
(* DELETE /cache/:id                                                       *)
(***************************************************************************)
\* the keys a caller may name: every key a read can build, a proper prefix
\* of one, and one that differs in letter case
EvictKeys ==
  {CacheKeyOf(in[1], ReplacePlus(in[2])) : in \in ReadInputs}
  \cup { <<"a", "-", "-", "S">>, <<"A", "-", "-", "S", " ", "1">> }

\* an eviction by prefix: every key that starts with the given one is deleted
EvictByPrefix(cacheKey) ==
  LET hit == {k \in DOMAIN Cache :
                Len(k) >= Len(cacheKey) /\ SubSeq(k, 1, Len(cacheKey)) = cacheKey}
  IN  /\ UNCHANGED <<timers, now, inflight, nreads, nwrites>>
      /\ Cache' = [k \in DOMAIN Cache \ hit |-> Cache[k]]
      /\ storedAt' = [k \in DOMAIN storedAt \ hit |-> storedAt[k]]
      /\ last' = Step("evict", "responded", <<>>, <<>>, cacheKey, <<>>,
                      StatusResponse(IF hit = {} THEN "skipped" ELSE "ok"))

Evict(cacheKey) ==
  LET exist == CacheGet(cacheKey)
  IN  /\ UNCHANGED <<timers, now, inflight, nreads, nwrites>>
      /\ IF Falsy(exist)
         THEN /\ UNCHANGED <<Cache, storedAt>>
              /\ last' = Step("evict", "responded", <<>>, <<>>, cacheKey, <<>>,
                              StatusResponse("skipped"))
         ELSE /\ Cache' = CacheDelete(cacheKey)
              /\ storedAt' = StoredAtDelete(cacheKey)
              /\ last' = Step("evict", "responded", <<>>, <<>>, cacheKey, <<>>,
                              StatusResponse("ok"))

(***************************************************************************)
(* The append route (write path).  src/index.js has no such route: the     *)
(* flow is the one the specification describes in its section 4.3.         *)
(***************************************************************************)
\* Tabular Append, given the resource and the range selector
AppendCall(id, range) == [op |-> "append", id |-> id, range |-> range]

\* the validation error for a payload that is not an array
NotArrayError == [kind |-> "notarray", body |-> <<>>, msg |-> "", arg |-> <<>>]

\* the upstream operation's result; msg tells whether an entry was deleted
Appended(deleted) ==
  [kind |-> "appended", body |-> <<>>, msg |-> IF deleted THEN "deleted" ELSE "absent",
   arg |-> <<>>]

\* the payload is validated before any upstream call
AppendStart(id, param, isArray) ==
  LET sheet == ReplacePlus(param)
      cacheKey == CacheKeyOf(id, sheet)
  IN  /\ nwrites < MaxWrites
      /\ nwrites' = nwrites + 1
      /\ UNCHANGED <<Cache, timers, now, nreads, storedAt>>
      /\ IF ~isArray
         THEN /\ inflight' = inflight
              /\ last' = Step("append", "responded", id, param, cacheKey, <<>>, NotArrayError)
         ELSE /\ Len(inflight) < MaxInFlight
              /\ inflight' = Append(inflight,
                    Suspended("append", "append", id, param, sheet, cacheKey,
                              <<AppendCall(id, sheet)>>))
              /\ last' = Quiet

\* the append answered without touching the cache
InvalidateNothing(rq) ==
  /\ UNCHANGED <<Cache, storedAt>>
  /\ last' = Step("append", "responded", rq.id, rq.param, rq.cacheKey, rq.calls,
                  Appended(FALSE))

\* on upstream success the entry under the same key is deleted if present
Invalidate(rq) ==
  /\ Cache' = CacheDelete(rq.cacheKey)
  /\ storedAt' = StoredAtDelete(rq.cacheKey)
  /\ last' = Step("append", "responded", rq.id, rq.param, rq.cacheKey, rq.calls,
                  Appended(CacheHas(rq.cacheKey)))

AppendReturn(i, ok, msg) ==
  LET rq == inflight[i]
  IN  /\ rq.kind = "append"
      /\ UNCHANGED <<timers, now, nreads, nwrites>>
      /\ inflight' = RemoveAt(inflight, i)
      /\ IF ok
         THEN Invalidate(rq)
         ELSE /\ UNCHANGED <<Cache, storedAt>>
              /\ last' = Step("append", "responded", rq.id, rq.param, rq.cacheKey,
                              rq.calls, UpstreamError(msg))

(***************************************************************************)
(* Timers and the clock.                                                   *)
(***************************************************************************)
\* a timer's callback runs once, no earlier than its due time; it may run
\* later, after the callbacks the event loop has before it
TimerFire(t) ==
  /\ t.due <= now
  /\ timers' = timers \ {t}
  /\ Cache' = CacheDelete(t.key)
  /\ storedAt' = StoredAtDelete(t.key)
  /\ UNCHANGED <<now, inflight, nreads, nwrites>>
  /\ last' = Quiet

\* time passes
Tick ==
  /\ now < MaxTime
  /\ now' = now + TimeStep
  /\ UNCHANGED <<Cache, timers, inflight, nreads, nwrites, storedAt>>
  /\ last' = Quiet

Next ==
  \/ \E in \in ReadInputs : ReadStart(in[1], in[2]) /\ UNCHANGED tf
  \/ \E i \in 1..Len(inflight), out \in DescribeOutcomes :
        DescribeReturn(i, out) /\ UNCHANGED tf
  \/ \E i \in 1..Len(inflight), out \in FetchOutcomes :
        FetchReturn(i, out) /\ UNCHANGED tf
  \/ \E key \in EvictKeys : Evict(key) /\ UNCHANGED tf
  \/ \E in \in AppendInputs, isArray \in BOOLEAN :
        AppendStart(in[1], in[2], isArray) /\ UNCHANGED tf
  \/ \E i \in 1..Len(inflight), ok \in BOOLEAN, m \in Messages :
        AppendReturn(i, ok, m) /\ UNCHANGED tf
  \/ \E t \in timers : TimerFire(t) /\ UNCHANGED tf
  \/ Tick /\ UNCHANGED tf

Spec == Init /\ [][Next]_vars

(***************************************************************************)
(* The read route on identifiers that contain the separator of the cache   *)
(* key: /a--/b and /a/--b.                                                  *)
(***************************************************************************)
\* req.params.id and req.params.sheet may hold any characters but "/"
CollideInputs ==
  { << <<"a", "-", "-">>, <<"b">> >>,
    << <<"a">>, <<"-", "-", "b">> >> }

CollideKeys == {CacheKeyOf(in[1], ReplacePlus(in[2])) : in \in CollideInputs}

NextCollide ==
  \/ \E in \in CollideInputs : ReadStart(in[1], in[2]) /\ UNCHANGED tf
  \/ \E i \in 1..Len(inflight), out \in FetchOutcomes :
        FetchReturn(i, out) /\ UNCHANGED tf
  \/ \E key \in CollideKeys : Evict(key) /\ UNCHANGED tf
  \/ \E t \in timers : TimerFire(t) /\ UNCHANGED tf
  \/ Tick /\ UNCHANGED tf

SpecCollide == Init /\ [][NextCollide]_vars

(***************************************************************************)
(* The row transform alone, on raw results of every shape within the       *)
(* bounds.  The transform copies cells and never inspects them, so the     *)
(* cell at row r and column c is a string that names r and c.              *)
(***************************************************************************)
\* names a header cell may hold: two plain names, one that is an array
\* index, and the one name whose assignment creates no property
HeaderNames == {"a", "b", "1", "__proto__"}

CellAt(r, c) == ToString(10 * r + c)

HeaderRows == UNION {[1..n -> HeaderNames] : n \in 0..MaxHeaders}

RowShapes == UNION {[1..m -> 0..MaxRowLen] : m \in 0..MaxRows}

Matrix(headers, shape) ==
  <<headers>> \o [r \in 1..Len(shape) |-> [c \in 1..shape[r] |-> CellAt(r, c)]]

TransformInputs ==
  RawResults \cup {[has |-> TRUE, values |-> Matrix(h, sh)] : h \in HeaderRows, sh \in RowShapes}

InitTransform ==
  /\ Cache = <<>>
  /\ timers = {}
  /\ now = 0
  /\ inflight = <<>>
  /\ nreads = 0
  /\ nwrites = 0
  /\ storedAt = <<>>
  /\ last = Quiet
  /\ \E raw \in TransformInputs : tf = [raw |-> raw, done |-> FALSE, rows |-> <<>>]

\* the rows the values.get callback makes of result.data
ApplyTransform ==
  /\ ~tf.done
  /\ tf' = [raw |-> tf.raw, done |-> TRUE, rows |-> Transform(tf.raw)]
  /\ UNCHANGED <<Cache, timers, now, inflight, nreads, nwrites, storedAt, last>>

NextTransform == ApplyTransform

SpecTransform == InitTransform /\ [][NextTransform]_vars

(***************************************************************************)
(* Properties.                                                             *)
(***************************************************************************)
\* the steps of a read request: its start, the answer of spreadsheets.get,
\* the callback of values.get
ReadOps == {"read", "describe", "fetch"}

\* C1: a read of a pair <<id, sheet>> whose own earlier read stored the entry
\* that is still in the cache (no timer, eviction or write has removed it) is
\* answered in the same step with exactly the stored serialized rows, makes no
\* upstream call and suspends nothing.
C1_RepeatedReadServedFromCache ==
  [][\A in \in ReadInputs, k \in DOMAIN Cache :
       (storedAt[k].id = in[1] /\ storedAt[k].param = in[2] /\ ReadStart(in[1], in[2]))
       => /\ last'.op = "read" /\ last'.ended = "responded"
          /\ last'.id = in[1] /\ last'.param = in[2]
          /\ last'.res = RowsResponse(Cache[k])
          /\ last'.calls = <<>>
          /\ inflight' = inflight
          /\ Cache' = Cache]_vars

\* a second read of the pair that stored a non-empty row sequence was just
\* answered from the cache
C1_Witness ==
  /\ last.op = "read" /\ last.ended = "responded"
  /\ last.key \in DOMAIN Cache
  /\ storedAt[last.key].id = last.id /\ storedAt[last.key].param = last.param
  /\ last.res.body = Cache[last.key]
  /\ Len(last.res.body) > 2

\* C2: an entry that is in the cache leaves it through a timer callback only
\* when the TTL has elapsed since the entry was stored.
C2_ExpiresWhenTtlElapses ==
  [][\A k \in DOMAIN Cache :
       (k \notin DOMAIN Cache' /\ timers' # timers) => now >= storedAt[k].at + TTL]_vars

\* C3: the step that follows a successful append for key K is never a read
\* answered from the cache under K.
C3_ReadAfterAppendMissesCache ==
  [][(last.op = "append" /\ last.res.kind = "appended")
       => ~(last'.op = "read" /\ last'.ended = "responded" /\ last'.key = last.key)]_vars

\* a successful append has just deleted the entry of its key, and a read can follow
C3_Witness ==
  /\ last.op = "append" /\ last.res.kind = "appended" /\ last.res.msg = "deleted"
  /\ ~CacheHas(last.key)
  /\ nreads < MaxReads

\* C4: a manual eviction answers "skipped" exactly when the key has no entry
\* and "ok" exactly when it has one, and after "ok" the key has no entry.
C4_EvictionReportsPresence ==
  [][last'.op = "evict"
       => /\ last'.res.kind = "status"
          /\ last'.res.msg \in {"skipped", "ok"}
          /\ (last'.res.msg = "skipped") <=> (last'.key \notin DOMAIN Cache)
          /\ (last'.res.msg = "ok") <=> (last'.key \in DOMAIN Cache)
          /\ (last'.res.msg = "ok") => (last'.key \notin DOMAIN Cache')]_vars

\* an eviction has just answered "ok" and the key is gone
C4_Witness ==
  /\ last.op = "evict" /\ last.res.msg = "ok"
  /\ ~CacheHas(last.key)

\* C5: no step of a read other than a successful fetch changes the cache or
\* arms a timer: neither a suspension nor a step that ends the read with an
\* error or an exception.
C5_FailedReadLeavesCacheUnchanged ==
  [][((last'.op \in ReadOps /\ last'.res.kind # "rows")
        \/ (last' = Quiet /\ inflight' # inflight))
       => (Cache' = Cache /\ timers' = timers /\ storedAt' = storedAt)]_vars

\* a fetch has just failed while the cache holds an entry
C5_Witness ==
  /\ last.op = "fetch" /\ last.res.kind = "upstream"
  /\ DOMAIN Cache # {}

\* C6: a read of the ordinal "0" that is answered is answered with the
\* validation error.
C6_OrdinalZeroAlwaysValidationError ==
  (last.op \in ReadOps /\ last.param = <<"0">> /\ last.ended = "responded")
    => last.res = StartAtOneError

\* C7: a read answered with the validation error has made no upstream call.
C7_ValidationErrorWithoutUpstreamCall ==
  (last.op \in ReadOps /\ last.res = StartAtOneError) => last.calls = <<>>

\* the ordinal a request's identifier denotes when it is made of digits only
C8_IsOrdinal(s) == s # <<>> /\ \A i \in 1..Len(s) : s[i] \in {"0", "1", "2", "3", "4", "5", "6", "7", "8", "9"}

\* C8: when spreadsheets.get answers a read of the ordinal n >= 1 with a list
\* of sheets, n greater than the length of the list ends the read with the
\* not-found error, and any other n makes the title of the n-th sheet the
\* range of the values.get call the read goes on to.
C8_OrdinalResolvedOneBased ==
  [][\A i \in 1..Len(inflight), out \in DescribeOutcomes :
       LET rq == inflight[i]
           n == DecimalValue(rq.sheet)
       IN  (DescribeReturn(i, out) /\ out.kind = "ok" /\ C8_IsOrdinal(rq.sheet) /\ n >= 1)
           => IF n > Len(out.sheets)
              THEN /\ last'.op = "describe" /\ last'.ended = "responded"
                   /\ last'.res = NoSheetError(rq.sheet)
                   /\ inflight' = RemoveAt(inflight, i)
              ELSE /\ Len(inflight') = Len(inflight)
                   /\ inflight'[i].pc = "fetch"
                   /\ inflight'[i].sheet = out.sheets[n]
                   /\ inflight'[i].calls =
                        <<DescribeCall(rq.id), FetchCall(rq.id, out.sheets[n])>>]_vars

\* a read of the ordinal "2" waits for values.get with the second title as range
C8_Witness ==
  \E i \in 1..Len(inflight) :
    /\ inflight[i].kind = "read" /\ inflight[i].pc = "fetch"
    /\ inflight[i].param = <<"2">>
    /\ inflight[i].calls[2] = FetchCall(inflight[i].id, <<"T", "+">>)

\* an answer of spreadsheets.get with which the resolution of an ordinal fails
C9_ResolutionFails(sheet, out) ==
  \/ out.kind # "ok"
  \/ C8_IsOrdinal(sheet) /\ DecimalValue(sheet) = 0
  \/ C8_IsOrdinal(sheet) /\ DecimalValue(sheet) > Len(out.sheets)

\* C9: a read whose ordinal resolution fails ends in that step and has issued
\* no values.get call.
C9_NoFetchAfterFailedResolution ==
  [][\A i \in 1..Len(inflight), out \in DescribeOutcomes :
       (DescribeReturn(i, out) /\ C9_ResolutionFails(inflight[i].sheet, out))
       => /\ inflight' = RemoveAt(inflight, i)
          /\ last'.op = "describe"
          /\ \A j \in 1..Len(last'.calls) : last'.calls[j].op # "fetch"]_vars

\* a read has just ended with the not-found error, after one describe call
C9_Witness ==
  /\ last.op = "describe" /\ last.res.kind = "nosheet"
  /\ last.calls = <<DescribeCall(last.id)>>

\* two identifiers that are equal but for '+' against space
C10_SameUpToPlus(s, t) ==
  /\ Len(s) = Len(t)
  /\ \A i \in 1..Len(s) : s[i] = t[i] \/ {s[i], t[i]} = {"+", " "}

\* C10: two reads of one resource whose identifiers differ only by '+'
\* against space have the same cache key and the same first upstream call (the
\* same range when it is values.get), and neither holds a '+' from the
\* identifier.
C10_PlusNormalizedToSpace ==
  \A i, j \in 1..Len(inflight) :
    LET p == inflight[i]
        q == inflight[j]
    IN  (p.kind = "read" /\ q.kind = "read" /\ p.id = q.id /\ C10_SameUpToPlus(p.param, q.param))
        => /\ p.cacheKey = q.cacheKey
           /\ p.calls[1] = q.calls[1]
           /\ \A n \in (Len(p.id) + 1)..Len(p.cacheKey) : p.cacheKey[n] # "+"
           /\ \A n \in 1..Len(p.calls[1].range) : p.calls[1].range[n] # "+"

\* reads of "S+1" and of "S 1" of one resource both wait for values.get
C10_Witness ==
  \E i, j \in 1..Len(inflight) :
    /\ inflight[i].kind = "read" /\ inflight[j].kind = "read"
    /\ inflight[i].id = inflight[j].id
    /\ inflight[i].param = <<"S", "+", "1">> /\ inflight[j].param = <<"S", " ", "1">>
    /\ inflight[i].calls[1].op = "fetch"

\* the name of position j of a raw row: the header cell of that position,
\* or "undefined" past the end of the header row
C11_Name(headers, j) == IF j <= Len(headers) THEN headers[j] ELSE "undefined"

\* C11 as stated: the row table has one object per raw row after the first,
\* and object i has one property per position j of raw row i+1, which maps
\* the name of position j to cell j.
C11_RowsZipHeadersToCells ==
  (tf.done /\ tf.raw.has /\ Len(tf.raw.values) >= 1)
    => LET v == tf.raw.values
       IN  /\ Len(tf.rows) = Len(v) - 1
           /\ \A i \in 1..Len(tf.rows) :
                /\ Len(tf.rows[i]) = Len(v[i + 1])
                /\ \A j \in 1..Len(v[i + 1]) :
                     \E n \in 1..Len(tf.rows[i]) :
                       tf.rows[i][n] = <<C11_Name(v[1], j), v[i + 1][j]>>

\* C11 (amended): the row table has one object per raw row after the first, in
\* the same order; object i has exactly one property per distinct name at the
\* positions raw row i+1 has, "__proto__" excepted, and maps the name to the
\* cell at the last position that bears it.
C11_RowsKeepLastCellPerName ==
  (tf.done /\ tf.raw.has /\ Len(tf.raw.values) >= 1)
    => LET v == tf.raw.values
       IN  /\ Len(tf.rows) = Len(v) - 1
           /\ \A i \in 1..Len(tf.rows) :
                LET row == v[i + 1]
                    obj == tf.rows[i]
                    names == {C11_Name(v[1], j) : j \in 1..Len(row)} \ {"__proto__"}
                IN  /\ {obj[n][1] : n \in 1..Len(obj)} = names
                    /\ Len(obj) = Cardinality(names)
                    /\ \A n \in 1..Len(obj) :
                         \E j \in 1..Len(row) :
                           /\ C11_Name(v[1], j) = obj[n][1]
                           /\ obj[n][2] = row[j]
                           /\ \A j2 \in (j + 1)..Len(row) : C11_Name(v[1], j2) # obj[n][1]

\* the matrix [["a","b"],["11","12"],["21"]] has given [{a:"11",b:"12"},{a:"21"}]
C11_Witness ==
  /\ tf.done
  /\ tf.raw.values = << <<"a", "b">>, <<"11", "12">>, <<"21">> >>
  /\ tf.rows = << << <<"a", "11">>, <<"b", "12">> >>, << <<"a", "21">> >> >>

\* C12: a values.get callback (the only step recorded as "fetch") that
\* succeeds with no raw rows, the matrix missing or empty, is answered with
\* the empty row sequence as rows, not as an error;
\* the serialized empty sequence is stored under the request's key and a
\* timer for the key is armed one TTL ahead.
C12_NoRawRowsCachedAsEmptyRows ==
  [][last'.op = "fetch"
       => \A i \in 1..Len(inflight), out \in FetchOutcomes :
            (out.kind = "ok" /\ out.data.values = <<>> /\ FetchReturn(i, out))
              => /\ last'.ended = "responded"
                 /\ last'.res = RowsResponse(<<Punct("["), Punct("]")>>)
                 /\ inflight[i].cacheKey \in DOMAIN Cache'
                 /\ Cache'[inflight[i].cacheKey] = <<Punct("["), Punct("]")>>
                 /\ [key |-> inflight[i].cacheKey, due |-> now + TTL] \in timers']_vars

\* a missing or empty matrix has been answered with [] and [] is in the cache
C12_Witness ==
  /\ last.op = "fetch" /\ last.ended = "responded"
  /\ last.res = RowsResponse(<<Punct("["), Punct("]")>>)
  /\ last.key \in DOMAIN Cache
  /\ Cache[last.key] = <<Punct("["), Punct("]")>>
  /\ [key |-> last.key, due |-> now + TTL] \in timers

\* C13: an eviction of key K leaves every entry under another key as it was,
\* whether K is a prefix of that key or differs from it in letter case only,
\* removes no timer, and changes nothing at all when it answers "skipped".
C13_EvictionTouchesOnlyExactKey ==
  [][last'.op = "evict"
       => \A key \in EvictKeys :
            Evict(key)
              => /\ \A k \in DOMAIN Cache \ {key} :
                      k \in DOMAIN Cache' /\ Cache'[k] = Cache[k]
                 /\ DOMAIN Cache' \subseteq DOMAIN Cache
                 /\ timers' = timers
                 /\ (last'.res = StatusResponse("skipped") => Cache' = Cache)]_vars

\* the prefix "a--S" of the stored key "a--S 1" has been evicted and skipped
C13_Witness ==
  /\ last.op = "evict"
  /\ last.key = <<"a", "-", "-", "S">>
  /\ last.res = StatusResponse("skipped")
  /\ <<"a", "-", "-", "S", " ", "1">> \in DOMAIN Cache

\* C14: a timer callback that removes an entry is the callback of the timer
\* armed by the store of that very entry, not of a timer armed by an earlier
\* store of the key.
C14_TimerDeletesOnlyOwnEntry ==
  [][\A t \in timers :
       (TimerFire(t) /\ t.key \in DOMAIN Cache)
         => t.due = storedAt[t.key].at + TTL]_vars

\* C15: an entry appears or changes only in the step in which a read's
\* values.get succeeds, under that read's key and with the rows that read
\* answers; the timer callback of a key and an eviction that answers "ok"
\* leave the key without an entry; and every entry present was stored by
\* such a step and not removed since.
C15_EntriesOnlyFromSuccessfulFetch ==
  [][/\ DOMAIN storedAt' = DOMAIN Cache'
     /\ \A k \in DOMAIN Cache' :
          (\/ k \notin DOMAIN Cache \/ k \notin DOMAIN storedAt
           \/ Cache'[k] # Cache[k] \/ storedAt'[k] # storedAt[k])
            => /\ last'.op = "fetch" /\ last'.ended = "responded"
               /\ last'.res.kind = "rows"
               /\ last'.key = k
               /\ Cache'[k] = last'.res.body
               /\ storedAt'[k] = [at |-> now, id |-> last'.id, param |-> last'.param]
     /\ \A t \in timers : TimerFire(t) => t.key \notin DOMAIN Cache'
     /\ (last'.op = "evict" /\ last'.res = StatusResponse("ok"))
          => last'.key \notin DOMAIN Cache']_vars

\* an entry stored by a successful fetch has been removed by an eviction
C15_Witness ==
  /\ last.op = "evict"
  /\ last.res = StatusResponse("ok")
  /\ last.key \notin DOMAIN Cache
  /\ \E t \in timers : t.key = last.key

\* C16: a read that finds has(K) true is answered in that same step with the
\* value stored under K at the time of the check, and the step changes
\* neither the cache nor the timers: nothing runs between has and get.
C16_HitGetsTheValueChecked ==
  [][nreads' # nreads
       => \A in \in ReadInputs :
            LET K == CacheKeyOf(in[1], ReplacePlus(in[2]))
            IN  (K \in DOMAIN Cache /\ ReadStart(in[1], in[2]))
                  => /\ last'.op = "read" /\ last'.ended = "responded"
                     /\ last'.key = K
                     /\ last'.res = RowsResponse(ResJson(Parse(Cache[K])))
                     /\ Cache' = Cache
                     /\ timers' = timers]_vars

\* a read has been answered from the cache while a timer of its key was due
C16_Witness ==
  /\ last.op = "read" /\ last.ended = "responded"
  /\ last.key \in DOMAIN Cache
  /\ \E t \in timers : t.key = last.key /\ t.due <= now

\* C17 as stated: every entry has a pending timer of its key armed at or
\* after the entry's store, and a read answered from the cache returns a
\* value stored no more than one TTL before.
C17_NoHitOlderThanTtl ==
  /\ \A k \in DOMAIN Cache :
       \E t \in timers : t.key = k /\ t.due >= storedAt[k].at + TTL
  /\ (last.op = "read" /\ last.ended = "responded")
       => now <= storedAt[last.key].at + TTL

\* C17 (amended): every entry has the timer armed by its own store still
\* pending, and a read answered from the cache returns a value stored more
\* than one TTL before only while that timer is overdue and has not run.
C17_EntryHasItsTimerPending ==
  /\ \A k \in DOMAIN Cache :
       [key |-> k, due |-> storedAt[k].at + TTL] \in timers
  /\ (last.op = "read" /\ last.ended = "responded"
        /\ now > storedAt[last.key].at + TTL)
       => \E t \in timers :
            t.key = last.key /\ t.due = storedAt[last.key].at + TTL /\ t.due < now

\* a read has been answered from an entry stored more than one TTL before
C17_Witness ==
  /\ last.op = "read" /\ last.ended = "responded"
  /\ last.key \in DOMAIN storedAt
  /\ now > storedAt[last.key].at + TTL

\* C18: a read answered from the cache gets rows that were fetched for its
\* own resource identifier and its own normalized sub-resource identifier.
C18_HitReturnsRowsOfSamePair ==
  (last.op = "read" /\ last.ended = "responded")
    => /\ storedAt[last.key].id = last.id
       /\ ReplacePlus(storedAt[last.key].param) = ReplacePlus(last.param)

\* C19: every step that ends a read request, be it the handler's first run,
\* the answer of spreadsheets.get or the callback of values.get, ends it
\* with a response sent: rows or an error.
C19_EveryReadEndsWithAResponse ==
  last.op \in ReadOps
    => /\ last.ended = "responded"
       /\ last.res.kind \in {"rows", "upstream", "zero", "nosheet"}

====
